---- MODULE Spec2Model ----
(***************************************************************************)
(* State-machine model of SceneBuilder (src/src/sceneBuilder.ts) and of    *)
(* the top-level start-up in src/src/main.ts.                              *)
(*                                                                         *)
(*  Spec       asset loading, the rest of build(), the render loop         *)
(*  SpecXR     the Enter-VR button, the XR state handler, controller       *)
(*             buttons                                                     *)
(*  SpecRotate the left-hand thumbstick handler (yaw and clamped pitch)     *)
(*  SpecStick  both thumbstick handlers acting on cameraRoot               *)
(***************************************************************************)
EXTENDS Integers, Sequences, FiniteSets, TLC

VARIABLES
    task,            \* status of the four promises handed to Promise.all
    joinState,       \* state of the Promise.all promise
    joinReason,      \* its rejection reason
    pc,              \* position of build()
    calls,           \* calls build() made after the load, in program order
    consoleErrors,   \* arguments of console.error in build()'s catch
    buildResult,     \* what the build promise settled with
    loadingTexts,    \* the loadingTexts array of loadAssets
    loadingUIText,   \* engine.loadingUIText
    lastText,        \* latest text each progress callback was asked to show
    meshes,          \* scene.meshes with the flags optimizeScene sets
    afterRenderOnce, \* callbacks registered with onAfterRenderObservable.addOnce
    optimizeRuns,    \* number of runs of the optimizeScene callback
    frames,          \* number of completed frames
    xrState,         \* xr.baseExperience.state
    enterRequest,    \* the enterXRAsync call of the click handler
    activeCamera,    \* scene.activeCamera
    fxaaEnabled,     \* defaultPipeline.fxaaEnabled
    chromaticAberrationEnabled, \* defaultPipeline.chromaticAberrationEnabled
    pipelineCameras, \* cameras of the default pipeline
    buttonDisplay,   \* enterVrButton.style.display
    preEntry,        \* camera and flags as they were at the last click
    component,       \* components of the connected motion controllers
    pressCalls,      \* calls of exitXRAsync during each component's press
    cameraRoot,      \* position and rotation of the cameraRoot node
    lastStick        \* the thumbstick event handled last

vars == << task, joinState, joinReason, pc, calls, consoleErrors, buildResult,
           loadingTexts, loadingUIText, lastText, meshes, afterRenderOnce,
           optimizeRuns, frames, xrState, enterRequest, activeCamera,
           fxaaEnabled, chromaticAberrationEnabled, pipelineCameras,
           buttonDisplay, preEntry, component, pressCalls,
           cameraRoot, lastStick >>

buildVars == << task, joinState, joinReason, pc, calls, consoleErrors,
                buildResult, loadingTexts, loadingUIText, lastText, meshes,
                afterRenderOnce, optimizeRuns, frames >>

xrVars == << xrState, enterRequest, activeCamera, fxaaEnabled,
             chromaticAberrationEnabled, pipelineCameras, buttonDisplay,
             preEntry >>

buttonVars == << component, pressCalls >>

stickVars == << cameraRoot, lastStick >>

----------------------------------------------------------------------------
(* Bounds *)

MaxBytes == 2          \* largest byte count of a progress event
MaxLateMeshes == 2     \* meshes added to the scene besides ground and model
MaxFrames == 3         \* frames rendered
MaxPressCalls == 2     \* calls of exitXRAsync followed within one press
MaxYaw == 100          \* |cameraRoot.rotation.y| followed, in 1/1000 rad
MaxTilt == 50          \* |rotation.x|, |rotation.y| followed while translating
MaxPos == 1000         \* |cameraRoot.position.x|, |z| followed, in 1/10000

----------------------------------------------------------------------------
(* Asset loading: loadAssets, sceneBuilder.ts 213-269 *)

\* positions of the promises in the array given to Promise.all
WasmTask == 0
MotionTask == 1
CameraMotionTask == 2
ModelTask == 3
Tasks == {WasmTask, MotionTask, CameraMotionTask, ModelTask}

\* slot index each progress callback passes to updateLoadingText
Slots == {0, 1, 2}

SlotLabel(i) == IF i = 0 THEN "motion"
                ELSE IF i = 1 THEN "cameraMotion" ELSE "model"

\* An array element that was never assigned (a hole) is the empty sequence,
\* an assigned one is the one-element sequence of its text.
Hole == << >>

\* Math.floor((loaded * 100) / total) as the template literal prints it:
\* 0/0 prints NaN and n/0 prints Infinity
Percent(loaded, total) ==
    IF total = 0
    THEN (IF loaded = 0 THEN [kind |-> "NaN", value |-> 0]
                        ELSE [kind |-> "Infinity", value |-> 0])
    ELSE [kind |-> "number", value |-> (loaded * 100) \div total]

\* the text a progress callback builds from its event
ProgressText(i, loaded, total) ==
    [piece |-> "text", label |-> SlotLabel(i), loaded |-> loaded,
     total |-> total, percent |-> Percent(loaded, total)]

\* the fixed pieces of engine.loadingUIText
Piece(name) ==
    [piece |-> name, label |-> "", loaded |-> 0, total |-> 0,
     percent |-> [kind |-> "", value |-> 0]]
Separator == Piece("<br/><br/>")
Prefix == Piece("<br/><br/><br/><br/>")

\* loadingTexts.push(text) in place of the indexed assignment
ArrayPush(arr, index, text) == Append(arr, << text >>)

\* loadingTexts[index] = text on a JavaScript array: assigning past the end
\* leaves holes in between
ArrayAssign(arr, index, text) ==
    [k \in 1..(IF index + 1 > Len(arr) THEN index + 1 ELSE Len(arr)) |->
        IF k = index + 1 THEN << text >>
        ELSE IF k <= Len(arr) THEN arr[k] ELSE Hole]

\* Array.prototype.join: a hole contributes the empty string
RECURSIVE Join(_)
Join(arr) ==
    IF Len(arr) = 0 THEN << >>
    ELSE IF Len(arr) = 1 THEN arr[1]
    ELSE arr[1] \o << Separator >> \o Join(Tail(arr))

\* the template literal of updateLoadingText
LoadingUIText(arr) == << Prefix >> \o Join(arr)

\* updateLoadingText(index, text), sceneBuilder.ts 222-227
updateLoadingText(index, text) ==
    /\ loadingTexts' = ArrayAssign(loadingTexts, index, text)
    /\ loadingUIText' = LoadingUIText(ArrayAssign(loadingTexts, index, text))

\* the rejection reason of a failed load
ErrorOf(t) == [source |-> "load", failed |-> t]
NoError == [source |-> "none", failed |-> -1]

\* the two ways setupXRExperience fails: the promise of
\* WebXRDefaultExperience.CreateAsync rejects (370), or it resolves with an
\* experience without baseExperience and line 381 throws a TypeError
CreateAsyncRejected == [source |-> "CreateAsync", failed |-> -1]
BaseExperienceMissing == [source |-> "TypeError", failed |-> -1]
XRFailures == {CreateAsyncRejected, BaseExperienceMissing}

\* a mesh as scene.meshes holds it, before optimizeScene touched it
NewMesh(name) ==
    [name |-> name, worldMatrixFrozen |-> FALSE,
     doNotSyncBoundingInfo |-> FALSE, isPickable |-> TRUE,
     alwaysSelectAsActiveMesh |-> FALSE]

\* the body of the loop of optimizeScene, sceneBuilder.ts 337-343
FreezeMesh(mesh) ==
    [mesh EXCEPT !.worldMatrixFrozen = TRUE,
                 !.doNotSyncBoundingInfo = TRUE,
                 !.isPickable = FALSE,
                 !.alwaysSelectAsActiveMesh = TRUE]

IsFrozen(mesh) ==
    /\ mesh.worldMatrixFrozen
    /\ mesh.doNotSyncBoundingInfo
    /\ ~mesh.isPickable
    /\ mesh.alwaysSelectAsActiveMesh

IsUntouched(mesh) ==
    /\ ~mesh.worldMatrixFrozen
    /\ ~mesh.doNotSyncBoundingInfo
    /\ mesh.isPickable
    /\ ~mesh.alwaysSelectAsActiveMesh

\* result.addAllToScene() of the model load, sceneBuilder.ts 264-267
AddAllToScene(ms) == Append(ms, NewMesh("model"))

\* what build() calls between the end of the load and the await of the XR
\* experience, in program order: sceneBuilder.ts 80-98 with
\* setupMmdRuntime 282-328 written out
PostLoadCalls ==
    << "hideLoadingUI",
       "mmdRuntime.register",
       "mmdRuntime.setAudioPlayer",
       "mmdRuntime.playAnimation",
       "mmdPlayerControl.showPlayerControl",
       "mmdRuntime.setCamera",
       "mmdCamera.addAnimation",
       "mmdCamera.setAnimation",
       "shadowGenerator.addShadowCaster",
       "mmdRuntime.createMmdModel",
       "mmdModel.addAnimation",
       "mmdModel.setAnimation",
       "physics.createGroundModel",
       "optimizeScene",
       "setupRenderingPipeline",
       "setupXRExperience" >>

\* the callbacks hideLoadingUI (207) and optimizeScene (333) register
PostLoadCallbacks == {"hideLoadingUI", "optimizeScene"}

\* build() resumes after `await this.loadAssets(mmdRoot)` resolved and runs
\* to its next await, sceneBuilder.ts 80-98 and 370
BuildAfterLoad ==
    /\ pc' = "awaitXR"
    /\ calls' = calls \o PostLoadCalls
    /\ afterRenderOnce' = afterRenderOnce \cup PostLoadCallbacks
    /\ pipelineCameras' = {"mmdCamera"}
    /\ fxaaEnabled' = TRUE
    /\ UNCHANGED << consoleErrors, buildResult >>

\* a catch that logs and then carries on with the steps after the load
BuildCatchAndGoOn(error) ==
    /\ pc' = "awaitXR"
    /\ consoleErrors' = Append(consoleErrors, error)
    /\ calls' = calls \o PostLoadCalls
    /\ afterRenderOnce' = afterRenderOnce \cup PostLoadCallbacks
    /\ pipelineCameras' = {"mmdCamera"}
    /\ fxaaEnabled' = TRUE
    /\ UNCHANGED buildResult

\* the catch of build(), sceneBuilder.ts 104-107
BuildCatch(error) ==
    /\ pc' = "failed"
    /\ consoleErrors' = Append(consoleErrors, error)
    /\ buildResult' = [settled |-> "rejected", reason |-> error]
    /\ UNCHANGED << calls, afterRenderOnce, pipelineCameras, fxaaEnabled >>

\* a join fulfilled by the first fulfilled element (Promise.any)
AnyResolved(tk) == \E t \in Tasks : tk[t] = "resolved"

\* Promise.all over the four promises, sceneBuilder.ts 229: fulfilled once
\* every element is fulfilled
AllResolved(tk) == \A t \in Tasks : tk[t] = "resolved"

\* a load promise is fulfilled; the model's promise first runs its then
\* callback (264-267)
ResolveTask(t) ==
    /\ task[t] = "pending"
    /\ task' = [task EXCEPT ![t] = "resolved"]
    /\ meshes' = IF t = ModelTask THEN AddAllToScene(meshes) ELSE meshes
    /\ IF joinState = "pending" /\ AllResolved(task')
       THEN /\ joinState' = "resolved"
            /\ BuildAfterLoad
       ELSE UNCHANGED << joinState, pc, calls, afterRenderOnce,
                         pipelineCameras, fxaaEnabled, consoleErrors,
                         buildResult >>
    /\ UNCHANGED << joinReason, loadingTexts, loadingUIText, lastText,
                    optimizeRuns, frames, xrState, enterRequest, activeCamera,
                    chromaticAberrationEnabled, buttonDisplay, preEntry >>
    /\ UNCHANGED << buttonVars, stickVars >>

\* a load promise is rejected: Promise.all rejects with the first rejection
RejectTask(t) ==
    /\ task[t] = "pending"
    /\ task' = [task EXCEPT ![t] = "rejected"]
    /\ IF joinState = "pending"
       THEN /\ joinState' = "rejected"
            /\ joinReason' = ErrorOf(t)
            /\ BuildCatch(ErrorOf(t))
       ELSE UNCHANGED << joinState, joinReason, pc, calls, afterRenderOnce,
                         pipelineCameras, fxaaEnabled, consoleErrors,
                         buildResult >>
    /\ UNCHANGED << loadingTexts, loadingUIText, lastText, meshes,
                    optimizeRuns, frames, xrState, enterRequest, activeCamera,
                    chromaticAberrationEnabled, buttonDisplay, preEntry >>
    /\ UNCHANGED << buttonVars, stickVars >>

\* a progress event of a load still in flight, sceneBuilder.ts 231-257; the
\* loaders report byte counts that do not decrease
Progress(i, loaded, total) ==
    /\ task[i + 1] = "pending"
    /\ IF Len(lastText[i]) = 0 THEN TRUE ELSE lastText[i][1].loaded <= loaded
    /\ updateLoadingText(i, ProgressText(i, loaded, total))
    /\ lastText' = [lastText EXCEPT ![i] = << ProgressText(i, loaded, total) >>]
    /\ UNCHANGED << task, joinState, joinReason, pc, calls, consoleErrors,
                    buildResult, meshes, afterRenderOnce, optimizeRuns,
                    frames >>
    /\ UNCHANGED << xrVars, buttonVars, stickVars >>

\* WebXRDefaultExperience.CreateAsync resolved: the rest of
\* setupXRExperience, setupEnterVrButton and the return of build(),
\* sceneBuilder.ts 98-103
XRCreated ==
    /\ pc = "awaitXR"
    /\ pc' = "done"
    /\ calls' = calls \o << "setupEnterVrButton" >>
    /\ buttonDisplay' = ""
    /\ buildResult' = [settled |-> "resolved", reason |-> NoError]
    /\ UNCHANGED << task, joinState, joinReason, consoleErrors, loadingTexts,
                    loadingUIText, lastText, meshes, afterRenderOnce,
                    optimizeRuns, frames, xrState, enterRequest, activeCamera,
                    fxaaEnabled, chromaticAberrationEnabled, pipelineCameras,
                    preEntry >>
    /\ UNCHANGED << buttonVars, stickVars >>

\* setupXRExperience failed at its await (370) or at line 381: the await of
\* line 98 is inside the try of build(), so the catch (104-107) logs the
\* error and rejects the build; the steps after the load have already run
XRSetupFails(error) ==
    /\ pc = "awaitXR"
    /\ BuildCatch(error)
    /\ UNCHANGED << task, joinState, joinReason, loadingTexts, loadingUIText,
                    lastText, meshes, optimizeRuns, frames, xrState,
                    enterRequest, activeCamera, chromaticAberrationEnabled,
                    buttonDisplay, preEntry >>
    /\ UNCHANGED << buttonVars, stickVars >>

\* the callback optimizeScene registers, sceneBuilder.ts 333-350
OptimizeCallback(ms) == [k \in 1..Len(ms) |-> FreezeMesh(ms[k])]

\* observers registered with add stay registered after a notification
KeepObservers(observers) == observers

\* observers registered with addOnce are dropped after their notification,
\* sceneBuilder.ts 207 and 333
DropOnceObservers(observers) == {}

\* one frame of the render loop started by runtime.run(), main.ts 25:
\* onAfterRenderObservable notifies its observers and drops the addOnce ones
RenderFrame ==
    /\ pc = "done"
    /\ frames < MaxFrames
    /\ frames' = frames + 1
    /\ IF "optimizeScene" \in afterRenderOnce
       THEN /\ meshes' = OptimizeCallback(meshes)
            /\ optimizeRuns' = optimizeRuns + 1
       ELSE UNCHANGED << meshes, optimizeRuns >>
    /\ afterRenderOnce' = DropOnceObservers(afterRenderOnce)
    /\ UNCHANGED << task, joinState, joinReason, pc, calls, consoleErrors,
                    buildResult, loadingTexts, loadingUIText, lastText >>
    /\ UNCHANGED << xrVars, buttonVars, stickVars >>

NumLate(ms) == Cardinality({k \in 1..Len(ms) : ms[k].name = "late"})

\* a mesh enters the scene after the load (controller models, pointers)
AddMesh ==
    /\ pc \in {"awaitXR", "done"}
    /\ NumLate(meshes) < MaxLateMeshes
    /\ meshes' = Append(meshes, NewMesh("late"))
    /\ UNCHANGED << task, joinState, joinReason, pc, calls, consoleErrors,
                    buildResult, loadingTexts, loadingUIText, lastText,
                    afterRenderOnce, optimizeRuns, frames >>
    /\ UNCHANGED << xrVars, buttonVars, stickVars >>

----------------------------------------------------------------------------
(* State after build() reached `await this.loadAssets(mmdRoot)`, line 77 *)

NoPreEntry ==
    [camera |-> "mmdCamera", fxaa |-> FALSE, ca |-> FALSE, cameras |-> {}]

\* before setupRenderingPipeline there is no pipeline, before
\* setupEnterVrButton no button; the MMD camera, the first camera created
\* (67), is the active one
InitXRVars ==
    /\ xrState = "NOT_IN_XR"
    /\ enterRequest = "none"
    /\ activeCamera = "mmdCamera"
    /\ fxaaEnabled = FALSE
    /\ chromaticAberrationEnabled = FALSE
    /\ pipelineCameras = {}
    /\ buttonDisplay = "absent"
    /\ preEntry = NoPreEntry

\* components of the motion controllers: hand, component id, component type
Components ==
    { << "left", "xr-standard-trigger", "trigger" >>,
      << "right", "xr-standard-squeeze", "squeeze" >>,
      << "right", "xr-standard-thumbstick", "thumbstick" >> }

Released == [value |-> 0, pressedInXR |-> FALSE]

InitButtons ==
    /\ component = [c \in Components |-> Released]
    /\ pressCalls = [c \in Components |-> 0]

CameraRootAtRest == [px |-> 0, py |-> 0, pz |-> 0, rx |-> 0, ry |-> 0, rz |-> 0]

NoStick == [hand |-> "none", ax |-> 0, ay |-> 0,
            forward |-> << 0, 0, 0 >>, right |-> << 0, 0, 0 >>]

InitStick ==
    /\ cameraRoot = CameraRootAtRest
    /\ lastStick = NoStick

Init ==
    /\ task = [t \in Tasks |-> "pending"]
    /\ joinState = "pending"
    /\ joinReason = NoError
    /\ pc = "loading"
    /\ calls = << >>
    /\ consoleErrors = << >>
    /\ buildResult = [settled |-> "pending", reason |-> NoError]
    /\ loadingTexts = << >>
    /\ loadingUIText = << >>
    /\ lastText = [i \in Slots |-> << >>]
    /\ meshes = << NewMesh("ground1") >>
    /\ afterRenderOnce = {}
    /\ optimizeRuns = 0
    /\ frames = 0
    /\ InitXRVars
    /\ InitButtons
    /\ InitStick

Next ==
    \/ \E t \in Tasks : ResolveTask(t)
    \/ \E t \in Tasks : RejectTask(t)
    \/ \E i \in Slots, loaded \in 0..MaxBytes, total \in {0, MaxBytes} :
          Progress(i, loaded, total)
    \/ XRCreated
    \/ \E error \in XRFailures : XRSetupFails(error)
    \/ RenderFrame
    \/ AddMesh

Spec == Init /\ [][Next]_vars

----------------------------------------------------------------------------
(* The VR session: setupXRExperience 366-485, setupEnterVrButton 488-513 *)

\* state after build() returned the scene with no progress event reported:
\* setupRenderingPipeline (355-362) built the pipeline on the MMD camera and
\* switched on fxaaEnabled only, so chromatic aberration is still off, as in
\* every new DefaultRenderingPipeline; the button has its default display
InitBuilt ==
    /\ task = [t \in Tasks |-> "resolved"]
    /\ joinState = "resolved"
    /\ joinReason = NoError
    /\ pc = "done"
    /\ calls = PostLoadCalls \o << "setupEnterVrButton" >>
    /\ consoleErrors = << >>
    /\ buildResult = [settled |-> "resolved", reason |-> NoError]
    /\ loadingTexts = << >>
    /\ loadingUIText = << >>
    /\ lastText = [i \in Slots |-> << >>]
    /\ meshes = << NewMesh("ground1"), NewMesh("model") >>
    /\ afterRenderOnce = PostLoadCallbacks
    /\ optimizeRuns = 0
    /\ frames = 0
    /\ xrState = "NOT_IN_XR"
    /\ enterRequest = "none"
    /\ activeCamera = "mmdCamera"
    /\ fxaaEnabled = TRUE
    /\ chromaticAberrationEnabled = FALSE
    /\ pipelineCameras = {"mmdCamera"}
    /\ buttonDisplay = ""
    /\ preEntry = NoPreEntry

\* the observer of onStateChangedObservable, sceneBuilder.ts 468-482
OnStateChanged(state) ==
    IF state = "NOT_IN_XR"
    THEN /\ fxaaEnabled' = TRUE
         /\ chromaticAberrationEnabled' = TRUE
         /\ buttonDisplay' = IF buttonDisplay = "absent" THEN "absent"
                             ELSE "block"
         /\ activeCamera' = "mmdCamera"
    ELSE UNCHANGED << fxaaEnabled, chromaticAberrationEnabled, buttonDisplay,
                      activeCamera >>

Snapshot ==
    [camera |-> activeCamera, fxaa |-> fxaaEnabled,
     ca |-> chromaticAberrationEnabled, cameras |-> pipelineCameras]

\* click on the Enter-VR button, sceneBuilder.ts 494-499: enterXRAsync starts
\* to negotiate the session and the handler waits for it
ClickEnterVr ==
    /\ pc = "done"
    /\ buttonDisplay \in {"", "block"}
    /\ xrState = "NOT_IN_XR"
    /\ enterRequest # "pending"
    /\ preEntry' = Snapshot
    /\ xrState' = "ENTERING_XR"
    /\ enterRequest' = "pending"
    /\ OnStateChanged("ENTERING_XR")
    /\ UNCHANGED << pipelineCameras, buildVars, buttonVars, stickVars >>

\* click where WebXR is not supported: enterXRAsync throws at once and the
\* handler ends at its await, sceneBuilder.ts 495
ClickEnterVrUnsupported ==
    /\ pc = "done"
    /\ buttonDisplay \in {"", "block"}
    /\ xrState = "NOT_IN_XR"
    /\ enterRequest # "pending"
    /\ preEntry' = Snapshot
    /\ enterRequest' = "failed"
    /\ UNCHANGED << xrState, activeCamera, fxaaEnabled,
                    chromaticAberrationEnabled, pipelineCameras,
                    buttonDisplay, buildVars, buttonVars, stickVars >>

\* enterXRAsync resolved: the click handler runs on, sceneBuilder.ts 501-511
EnterSucceeds ==
    /\ enterRequest = "pending"
    /\ enterRequest' = "resolved"
    /\ fxaaEnabled' = FALSE
    /\ chromaticAberrationEnabled' = FALSE
    /\ pipelineCameras' = pipelineCameras \cup {"xrCamera"}
    /\ activeCamera' = "xrCamera"
    /\ buttonDisplay' = "none"
    /\ UNCHANGED << xrState, preEntry, buildVars, buttonVars, stickVars >>

\* the session could not be set up: the experience helper goes back to
\* NOT_IN_XR, which notifies the state observer (468), and enterXRAsync
\* rejects, which ends the click handler at its await (495)
EnterFails ==
    /\ enterRequest = "pending"
    /\ enterRequest' = "failed"
    /\ xrState' = "NOT_IN_XR"
    /\ OnStateChanged("NOT_IN_XR")
    /\ UNCHANGED << pipelineCameras, preEntry, buildVars, buttonVars,
                    stickVars >>

\* the first frame of the session: the experience helper reports IN_XR
FirstXRFrame ==
    /\ enterRequest = "resolved"
    /\ xrState = "ENTERING_XR"
    /\ xrState' = "IN_XR"
    /\ OnStateChanged("IN_XR")
    /\ UNCHANGED << enterRequest, pipelineCameras, preEntry, buildVars,
                    buttonVars, stickVars >>

\* the session ended, by the device or after exitXRAsync: the experience
\* helper reports NOT_IN_XR and the controllers are gone
SessionEnded ==
    /\ enterRequest = "resolved"
    /\ xrState \in {"ENTERING_XR", "IN_XR", "EXITING_XR"}
    /\ xrState' = "NOT_IN_XR"
    /\ enterRequest' = "ended"
    /\ OnStateChanged("NOT_IN_XR")
    /\ component' = [c \in Components |-> Released]
    /\ UNCHANGED << pipelineCameras, preEntry, pressCalls, buildVars,
                    stickVars >>

\* component.type !== "thumbstick", sceneBuilder.ts 457: the components that
\* get the button observer
HasExitObserver(c) == c[3] # "thumbstick"

\* component.pressed
Pressed(v) == v >= 1

ButtonValues == 0..2

\* a component reports a button-state change (its value, and with it perhaps
\* pressed, changed); its observer, sceneBuilder.ts 458-462, calls
\* exitXRAsync when the component is pressed; exitXRAsync leaves IN_XR
ButtonStateChanged(c, v) ==
    /\ enterRequest = "resolved"
    /\ xrState # "NOT_IN_XR"
    /\ v # component[c].value
    /\ LET newPress == ~Pressed(component[c].value) /\ Pressed(v)
           before == IF newPress THEN 0 ELSE pressCalls[c]
           called == HasExitObserver(c) /\ Pressed(v)
       IN /\ called => before < MaxPressCalls
          /\ component' = [component EXCEPT ![c] =
                [value |-> v,
                 pressedInXR |-> IF newPress THEN xrState = "IN_XR"
                                 ELSE component[c].pressedInXR]]
          /\ pressCalls' = [pressCalls EXCEPT ![c] =
                IF called THEN before + 1 ELSE before]
          /\ xrState' = IF called /\ xrState = "IN_XR" THEN "EXITING_XR"
                        ELSE xrState
          /\ OnStateChanged(xrState')
    /\ UNCHANGED << enterRequest, pipelineCameras, preEntry, buildVars,
                    stickVars >>

SessionNext ==
    \/ ClickEnterVr
    \/ ClickEnterVrUnsupported
    \/ EnterSucceeds
    \/ EnterFails
    \/ FirstXRFrame
    \/ SessionEnded

InitXR == InitBuilt /\ InitButtons /\ InitStick

NextXR ==
    \/ SessionNext
    \/ \E c \in Components, v \in ButtonValues : ButtonStateChanged(c, v)

SpecXR == InitXR /\ [][NextXR]_vars

----------------------------------------------------------------------------
(* The thumbstick observers, sceneBuilder.ts 404-450.                      *)
(* Units: axes in 1/10, direction vectors in 1/100, angles in 1/1000 rad,  *)
(* positions in 1/10000.                                                   *)

RotationSpeed == 50     \* const rotationSpeed = 0.05, in 1/1000 rad
HalfPi == 1571          \* Math.PI / 2 in 1/1000 rad

Axis == {-10, 0, 10}

\* camera orientations: the world directions of the camera's local backward
\* and right axes (getDirection, 414 and 420), unit vectors in 1/100
Poses ==
    { [backward |-> << 0, 0, -100 >>,   right |-> << 100, 0, 0 >>],
      [backward |-> << -60, 0, -80 >>,  right |-> << 80, 0, -60 >>],
      [backward |-> << 0, 60, -80 >>,   right |-> << 100, 0, 0 >>],
      [backward |-> << 0, 0, -100 >>,   right |-> << 80, 60, 0 >>],
      [backward |-> << 0, 100, 0 >>,    right |-> << 100, 0, 0 >> ] }

ISqrt(n) == CHOOSE r \in 0..200 : r * r <= n /\ n < (r + 1) * (r + 1)

Dot(u, v) == u[1] * v[1] + u[2] * v[2] + u[3] * v[3]

\* a vector left as the camera gave it
KeepHeight(v) == v

\* forward.y = 0; right.y = 0, sceneBuilder.ts 417 and 423
ProjectGround(v) == << v[1], 0, v[3] >>

\* Vector3.normalize: a vector of length 0 stays as it is
Normalize(v) ==
    LET len == ISqrt(Dot(v, v))
    IN IF len = 0 THEN v
       ELSE << (v[1] * 100) \div len, (v[2] * 100) \div len,
               (v[3] * 100) \div len >>

\* v.scale(axis * 0.1) with the axis in 1/10: the result is in 1/10000
ScaleByAxis(v, axis) == << v[1] * axis, v[2] * axis, v[3] * axis >>

VAdd(u, v) == << u[1] + v[1], u[2] + v[2], u[3] + v[3] >>

\* the movement the right-hand observer computes, sceneBuilder.ts 414-428
Movement(pose, ax, ay) ==
    LET forward == Normalize(ProjectGround(pose.backward))
        right == Normalize(ProjectGround(pose.right))
    IN VAdd(ScaleByAxis(forward, ay), ScaleByAxis(right, ax))

Abs(x) == IF x < 0 THEN -x ELSE x

\* an axis event of the right-hand thumbstick, sceneBuilder.ts 412-432
RightStick(ax, ay, pose) ==
    /\ enterRequest = "resolved"
    /\ xrState # "NOT_IN_XR"
    /\ cameraRoot' =
          IF xrState = "IN_XR"
          THEN LET movement == Movement(pose, ax, ay)
               IN [cameraRoot EXCEPT !.px = @ + movement[1],
                                     !.py = @ + movement[2],
                                     !.pz = @ + movement[3]]
          ELSE cameraRoot
    /\ Abs(cameraRoot'.px) <= MaxPos
    /\ Abs(cameraRoot'.pz) <= MaxPos
    /\ lastStick' = [hand |-> "right", ax |-> ax, ay |-> ay,
                     forward |-> pose.backward, right |-> pose.right]
    /\ UNCHANGED << xrVars, buildVars, buttonVars >>

Max(a, b) == IF a > b THEN a ELSE b
Min(a, b) == IF a < b THEN a ELSE b

\* a clamp to half a turn instead of a quarter
ClampHalfTurn(x) == Max(-2 * HalfPi, Min(2 * HalfPi, x))

\* Math.max(-Math.PI / 2, Math.min(Math.PI / 2, x)), sceneBuilder.ts 441-444
ClampPitch(x) == Max(-HalfPi, Min(HalfPi, x))

\* axis * rotationSpeed with the axis in 1/10
Turn(axis) == (axis * RotationSpeed) \div 10

\* an axis event of the left-hand thumbstick, sceneBuilder.ts 435-446
LeftStick(ax, ay) ==
    /\ enterRequest = "resolved"
    /\ xrState # "NOT_IN_XR"
    /\ cameraRoot' =
          IF xrState = "IN_XR"
          THEN [cameraRoot EXCEPT !.ry = @ - Turn(ax),
                                  !.rx = ClampPitch(@ - Turn(ay))]
          ELSE cameraRoot
    /\ Abs(cameraRoot'.ry) <= MaxYaw
    /\ lastStick' = [hand |-> "left", ax |-> ax, ay |-> ay,
                     forward |-> << 0, 0, 0 >>, right |-> << 0, 0, 0 >>]
    /\ UNCHANGED << xrVars, buildVars, buttonVars >>

NextRotate ==
    \/ SessionNext
    \/ \E ax \in Axis, ay \in Axis : LeftStick(ax, ay)

SpecRotate == InitXR /\ [][NextRotate]_vars

NextStick ==
    \/ SessionNext
    \/ \E ax \in Axis, ay \in Axis, pose \in Poses : RightStick(ax, ay, pose)
    \/ \E ax \in Axis, ay \in Axis :
          /\ LeftStick(ax, ay)
          /\ Abs(cameraRoot'.rx) <= MaxTilt
          /\ Abs(cameraRoot'.ry) <= MaxTilt

SpecStick == InitXR /\ [][NextStick]_vars

----------------------------------------------------------------------------
(* Properties of loading and build(), checked under Spec *)

Range(seq) == {seq[k] : k \in 1..Len(seq)}
IndexOf(seq, x) == CHOOSE k \in 1..Len(seq) : seq[k] = x

\* C1: the load join resolves only after all four load tasks resolved, in
\* every order of completion, and once one of them rejects the join is
\* rejected at that very step, whatever the other tasks are doing; build()
\* goes past the load only when the join resolved, and a rejected join has
\* failed the build.
C1_JoinAllOrNothing ==
    /\ joinState = "resolved" <=> (\A t \in Tasks : task[t] = "resolved")
    /\ joinState = "rejected" <=> (\E t \in Tasks : task[t] = "rejected")
    /\ joinState = "rejected" =>
          /\ joinReason.failed \in Tasks
          /\ task[joinReason.failed] = "rejected"
    /\ pc \in {"awaitXR", "done"} => joinState = "resolved"
    /\ joinState = "rejected" => pc = "failed"
    /\ pc = "loading" <=> joinState = "pending"

\* the join is rejected while two loads are still in flight
C1_Witness ==
    /\ joinState = "rejected"
    /\ Cardinality({t \in Tasks : task[t] = "pending"}) = 2
    /\ \E t \in Tasks : task[t] = "resolved"

AttachCalls ==
    { "mmdRuntime.setCamera", "mmdCamera.addAnimation",
      "mmdCamera.setAnimation", "mmdModel.addAnimation",
      "mmdModel.setAnimation" }

\* C2: playback is started only after the load completed and after the body
\* track was attached to the model and the camera track to the camera.
C2_AttachThenPlay ==
    "mmdRuntime.playAnimation" \in Range(calls) =>
        /\ joinState = "resolved"
        /\ \A a \in AttachCalls :
              /\ a \in Range(calls)
              /\ IndexOf(calls, a) < IndexOf(calls, "mmdRuntime.playAnimation")

FirstFrameStep == frames = 0 /\ frames' = 1

\* C6: the optimisation runs exactly once, at the first completed frame: it
\* flags every mesh then in the scene; afterwards it never runs again, no
\* flag of a mesh changes, and a mesh added later enters and stays unflagged.
C6_OptimizeOnce ==
    [][ /\ FirstFrameStep =>
              /\ optimizeRuns = 0 /\ optimizeRuns' = 1
              /\ Len(meshes') = Len(meshes)
              /\ \A k \in 1..Len(meshes) :
                    /\ IsUntouched(meshes[k])
                    /\ IsFrozen(meshes'[k])
        /\ ~FirstFrameStep => optimizeRuns' = optimizeRuns
        /\ frames >= 1 =>
              /\ optimizeRuns = 1
              /\ \A k \in 1..Len(meshes) : meshes'[k] = meshes[k]
              /\ \A k \in (Len(meshes) + 1)..Len(meshes') :
                    IsUntouched(meshes'[k])
      ]_vars

\* after several frames the scene holds frozen meshes and a later, unfrozen one
C6_Witness ==
    /\ frames >= 2
    /\ optimizeRuns = 1
    /\ \E k \in 1..Len(meshes) : IsFrozen(meshes[k]) /\ meshes[k].name = "late"
    /\ \E k \in 1..Len(meshes) : IsUntouched(meshes[k])

\* the lines of engine.loadingUIText: the text after the prefix, cut at the
\* separators
RECURSIVE SplitLines(_)
SplitLines(text) ==
    IF \A k \in 1..Len(text) : text[k] # Separator
    THEN << text >>
    ELSE LET k == CHOOSE j \in 1..Len(text) :
                     /\ text[j] = Separator
                     /\ \A h \in 1..(j - 1) : text[h] # Separator
         IN << SubSeq(text, 1, k - 1) >>
                \o SplitLines(SubSeq(text, k + 1, Len(text)))

Reported == {i \in Slots : Len(lastText[i]) > 0}

\* C7: after any interleaving of progress callbacks, the loading text holds
\* for each slot that reported exactly its latest text, on the line of its
\* slot index; lines of slots that did not report are empty.
C7_ProgressTextPerSlot ==
    Reported # {} =>
        /\ loadingUIText[1] = Prefix
        /\ LET lines == SplitLines(Tail(loadingUIText))
           IN /\ \A i \in Reported :
                    /\ i + 1 <= Len(lines)
                    /\ lines[i + 1] = lastText[i]
              /\ \A k \in 1..Len(lines) :
                    (k - 1) \notin Reported => lines[k] = << >>
              /\ \E i \in Reported : Len(lines) = i + 1

\* slot 2 reported before slot 0, and slot 0 reported more than once
C7_Witness ==
    /\ Reported = {0, 2}
    /\ Len(loadingTexts) = 3
    /\ lastText[0][1].loaded = MaxBytes
    /\ lastText[2][1].loaded = 1
    /\ lastText[2][1].total = 0

C9_Failed ==
    /\ consoleErrors = << joinReason >>
    /\ buildResult = [settled |-> "rejected", reason |-> joinReason]
    /\ calls = << >>
    /\ afterRenderOnce = {}
    /\ pipelineCameras = {}
    /\ buttonDisplay = "absent"
    /\ frames = 0

\* C9: when a load fails, build() logs the error and rejects with that same
\* error, none of the steps after the load runs (runtime set-up and playback
\* start, rendering pipeline, XR set-up, Enter-VR button), and no load is
\* started again.
C9_LoadFailureAborts ==
    /\ []((\E t \in Tasks : task[t] = "rejected") => C9_Failed)
    /\ [][ \A t \in Tasks :
              /\ (task[t] = "pending" /\ task'[t] = "rejected"
                    /\ joinState = "pending") =>
                    /\ buildResult' = [settled |-> "rejected",
                                       reason |-> ErrorOf(t)]
                    /\ consoleErrors' = << ErrorOf(t) >>
              /\ task[t] # "pending" => task'[t] = task[t]
         ]_vars

\* the model load failed first and a second load failed after it
C9_Witness ==
    /\ pc = "failed"
    /\ joinReason = ErrorOf(ModelTask)
    /\ task[MotionTask] = "rejected"
    /\ task[WasmTask] = "resolved"

----------------------------------------------------------------------------
(* Properties of the VR session, checked under SpecXR *)

\* C3: whenever a session has ended, the active camera is the camera that
\* was active before that entry, and fxaaEnabled and
\* chromaticAberrationEnabled hold the values they had before that entry.
C3_ExitRestoresPreEntry ==
    enterRequest = "ended" =>
        /\ xrState = "NOT_IN_XR"
        /\ activeCamera = preEntry.camera
        /\ fxaaEnabled = preEntry.fxaa
        /\ chromaticAberrationEnabled = preEntry.ca

\* C4: a press of a non-thumbstick component that began in IN_XR has issued
\* exactly one call of exitXRAsync, however many button-state changes the
\* component reported while pressed; a thumbstick component issues none.
C4_OneExitPerPress ==
    \A c \in Components :
        /\ (HasExitObserver(c) /\ component[c].pressedInXR
              /\ Pressed(component[c].value)) => pressCalls[c] = 1
        /\ ~HasExitObserver(c) => pressCalls[c] = 0

\* C8: after a failed session request the state is NOT_IN_XR, the active
\* camera, fxaaEnabled, chromaticAberrationEnabled and the cameras of the
\* pipeline are as they were before the click, and the button is visible.
C8_FailedEntryCommitsNothing ==
    enterRequest = "failed" =>
        /\ xrState = "NOT_IN_XR"
        /\ activeCamera = preEntry.camera
        /\ fxaaEnabled = preEntry.fxaa
        /\ chromaticAberrationEnabled = preEntry.ca
        /\ pipelineCameras = preEntry.cameras
        /\ buttonDisplay \in {"", "block"}

----------------------------------------------------------------------------
(* Properties of the thumbstick observers *)

\* C5: the stored pitch stays within [-pi/2, +pi/2]; an event that would
\* take it beyond a boundary leaves it exactly at that boundary, any other
\* event in IN_XR subtracts axes.y * rotationSpeed. Checked under SpecRotate.
C5_PitchClamped ==
    /\ [](cameraRoot.rx >= -HalfPi /\ cameraRoot.rx <= HalfPi)
    /\ [][ cameraRoot'.rx # cameraRoot.rx =>
              /\ lastStick'.hand = "left"
              /\ xrState = "IN_XR"
              /\ LET target == cameraRoot.rx - Turn(lastStick'.ay)
                 IN cameraRoot'.rx = IF target > HalfPi THEN HalfPi
                                      ELSE IF target < -HalfPi THEN -HalfPi
                                      ELSE target
         ]_vars

\* the pitch was driven past +pi/2 and sits on the boundary
C5_Witness ==
    /\ cameraRoot.rx = HalfPi
    /\ lastStick.hand = "left"
    /\ lastStick.ay = -10
    /\ xrState = "IN_XR"

Cross(u, v) ==
    << u[2] * v[3] - u[3] * v[2],
       u[3] * v[1] - u[1] * v[3],
       u[1] * v[2] - u[2] * v[1] >>

Position(node) == << node.px, node.py, node.pz >>
Rotation(node) == << node.rx, node.ry, node.rz >>
Displacement(from, to) ==
    << to.px - from.px, to.py - from.py, to.pz - from.pz >>

\* C10: no step changes cameraRoot.position.y; a step that moves cameraRoot
\* is a right-hand event in IN_XR and leaves the rotation alone; for the
\* input (x=1, y=0) the displacement has length 0.1 and points along the
\* camera's right vector projected onto the ground plane; outside IN_XR no
\* step changes position or rotation. Checked under SpecStick.
C10_TranslationPlanar ==
    [][ /\ cameraRoot'.py = cameraRoot.py
        /\ xrState # "IN_XR" => cameraRoot' = cameraRoot
        /\ Rotation(cameraRoot') # Rotation(cameraRoot) =>
              lastStick'.hand = "left"
        /\ Position(cameraRoot') # Position(cameraRoot) =>
              /\ lastStick'.hand = "right"
              /\ Rotation(cameraRoot') = Rotation(cameraRoot)
        /\ (lastStick'.hand = "right" /\ lastStick'.ax = 10
              /\ lastStick'.ay = 0
              /\ Position(cameraRoot') # Position(cameraRoot)) =>
              LET d == Displacement(cameraRoot, cameraRoot')
                  r == << lastStick'.right[1], 0, lastStick'.right[3] >>
              IN /\ Cross(d, r) = << 0, 0, 0 >>
                 /\ Dot(d, r) > 0
                 /\ Dot(d, d) = 1000 * 1000
      ]_vars

\* a tilted cameraRoot was moved by (x=1, y=0) under a rolled camera
C10_Witness ==
    /\ lastStick.hand = "right"
    /\ lastStick.ax = 10
    /\ lastStick.ay = 0
    /\ lastStick.right = << 80, 60, 0 >>
    /\ cameraRoot.px = 1000
    /\ cameraRoot.rx = 50
    /\ cameraRoot.py = 0

====
